---- MODULE Spec2Model ----
(***************************************************************************)
(* SQLiteTaskPool (src/DatabaseFiles/db_manager_agent.py): a fixed set of  *)
(* worker threads draining one FIFO queue of database tasks, one lock per  *)
(* database file, a shared status table, callers that submit and a caller  *)
(* that shuts the pool down.  A step is one access of a thread to shared   *)
(* state (queue, status table, lock registry, lock, stop flag), so that    *)
(* the interleavings of the threads are behaviours of the model.  Callers  *)
(* submit inserts; the pool itself never looks at the operation name after *)
(* submit has validated it.  The clients of the pool are modelled with it: *)
(* a thread polling get_status, and the thread of                          *)
(* FillerAgent.wait_for_tasks (src/DatabaseFiles/filler_agent.py).         *)
(***************************************************************************)
EXTENDS Naturals, Integers, Sequences, FiniteSets, TLC

\* ---- bounds of the model ------------------------------------------------
MaxTasks == 2        \* successful submit calls per behaviour
NumCallers == 2      \* threads calling submit concurrently
MaxDbs == 8          \* size of the largest directory the pool is built on
MaxCount == 24       \* largest directory size tried for the sizing of the pool
MaxGiven == 2        \* length of the longest list given to wait_for_tasks

\* ---- the values the pool handles ----------------------------------------
Resources == {"db1", "db2"}          \* db_path values tasks are submitted for
ModelOps == {"insert"}               \* operation names the callers submit
Kwargs == {"kw"}                     \* the argument bag, opaque to the pool
NoneVal == "None"                    \* Python's None
NoLock == 0
NoTaskId == 0
ForeignId == MaxTasks + 1            \* an id this pool never generates
Callers == 1..NumCallers
DbCounts == {0, MaxDbs}              \* len(discover_databases(db_dir))

ValidOps == {"fetch", "insert", "update", "delete"}
InvalidOps == {"drop"}               \* a name outside ValidOps

\* The databases found at construction, among those tasks are submitted for:
\* db1 is in the directory whenever the directory has a database, db2 never
\* is (its lock is created lazily by the first worker that needs it).
discover_databases(c) == IF c > 0 THEN {"db1"} ELSE {}

\* The waiting thread before wait_for_tasks is called.
NotWaiting ==
    [pc |-> "idle", task_ids |-> <<>>, remaining |-> {}, todo |-> {},
     done_now |-> {}, completed |-> 0, errors |-> 0, details |-> {}]

NoTask == [task_id |-> NoTaskId, db_path |-> NoneVal, op |-> NoneVal, kwargs |-> NoneVal]

VARIABLES
    databases,      \* number of databases discovered at construction
    num_workers,    \* self.num_workers
    task_queue,     \* self.task_queue: sequence of task descriptors
    unfinished,     \* task_queue.unfinished_tasks (put +1, task_done -1)
    status,         \* self.status: task_id -> record
    db_locks,       \* self.db_locks: db_path -> lock object (a lock id)
    lock_owner,     \* lock object -> worker holding it (0: free)
    shutdown_flag,  \* self._shutdown
    pc,             \* worker -> position in _worker
    task,           \* worker -> the descriptor it dequeued last
    lock,           \* worker -> its local `lock`
    mgr,            \* worker -> db_path its SQLiteManager has open, or None
    outcome,        \* worker -> pending exception state of the try block
    applied,        \* db_path -> number of rows inserted and committed
    cpc,            \* caller -> position in submit
    ctask,          \* caller -> descriptor being submitted
    next_id,        \* number of ids uuid4 has produced so far, plus one
    sd_pc,          \* position of the thread calling shutdown
    sd_wait,        \* the `wait` argument of that call
    sd_i,           \* index of the worker shutdown is joining
    at_stop,        \* what the pool looked like when the stop flag was set
    raised,         \* caller -> its last submit call ended with ValueError
    seen,           \* the last get_status call: the id asked and the object
                    \*   it returned
    waiter          \* the locals of the thread in FillerAgent.wait_for_tasks:
                    \*   pc, task_ids, remaining, done_now, completed, errors,
                    \*   details (the ids it has an entry for), and todo, the
                    \*   part of list(remaining) the for loop has yet to visit

vars == <<databases, num_workers, task_queue, unfinished, status, db_locks,
          lock_owner, shutdown_flag, pc, task, lock, mgr, outcome, applied,
          cpc, ctask, next_id, sd_pc, sd_wait, sd_i, at_stop, raised,
          seen, waiter>>

workerVars == <<pc, task, lock, mgr, outcome>>
callerVars == <<cpc, ctask, next_id>>
sdVars == <<sd_pc, sd_wait, sd_i, at_stop>>
poolConst == <<databases, num_workers>>
clientVars == <<raised, seen, waiter>>

Workers == 1..num_workers
TaskIds == DOMAIN status
Terminated(w) == pc[w] \in {"exited", "dead"}
QueueIds == {task_queue[i].task_id : i \in 1..Len(task_queue)}

\* ---- construction --------------------------------------------------------
\* As NumWorkersFor, with the quarter rounded up instead of down.
NumWorkersForRoundedUp(c) ==
    IF c > 20 THEN 5 ELSE IF (c + 3) \div 4 > 1 THEN (c + 3) \div 4 ELSE 1

\* As NumWorkersFor, without the floor of one worker.
NumWorkersForNoFloor(c) == IF c > 20 THEN 5 ELSE c \div 4

\* Worker count chosen by __init__ from the number of discovered databases.
NumWorkersFor(c) == IF c > 20 THEN 5 ELSE IF c \div 4 > 1 THEN c \div 4 ELSE 1

\* The pool after __init__ found n databases: the pool is sized, there is one
\* lock per discovered database, and num_workers threads are at the top of
\* their loop.
Constructed(n) ==
    /\ databases = n
    /\ num_workers = NumWorkersFor(n)
    /\ task_queue = <<>>
    /\ unfinished = 0
    /\ status = <<>>
    /\ db_locks = [r \in discover_databases(n) |-> 1]
    /\ lock_owner = [l \in 1..Cardinality(discover_databases(n)) |-> 0]
    /\ shutdown_flag = FALSE
    /\ pc = [w \in 1..NumWorkersFor(n) |-> "check"]
    /\ task = [w \in 1..NumWorkersFor(n) |-> NoTask]
    /\ lock = [w \in 1..NumWorkersFor(n) |-> NoLock]
    /\ mgr = [w \in 1..NumWorkersFor(n) |-> NoneVal]
    /\ outcome = [w \in 1..NumWorkersFor(n) |-> NoneVal]
    /\ applied = [r \in Resources |-> 0]
    /\ cpc = [c \in Callers |-> "idle"]
    /\ ctask = [c \in Callers |-> NoTask]
    /\ next_id = 1
    /\ sd_pc = "idle"
    /\ sd_wait = FALSE
    /\ sd_i = 1
    /\ at_stop = [queued |-> {}, in_get |-> {}, running |-> {}, submitted |-> {}]
    /\ raised = [c \in Callers |-> FALSE]
    /\ seen = [id |-> NoTaskId, rec |-> [status |-> NoneVal]]
    /\ waiter = NotWaiting

Init == \E c \in DbCounts : Constructed(c)

\* Pools built on directories of every size up to MaxCount.
SizingInit == \E c \in 0..MaxCount : Constructed(c)

\* ---- submit --------------------------------------------------------------
\* The record submit stores in the status table.
NewRecord(id, r, op, kw) ==
    [task_id |-> id, db_path |-> r, op |-> op, status |-> "queued",
     result |-> NoneVal, error |-> NoneVal, started_at |-> FALSE,
     finished_at |-> FALSE, args |-> kw]

\* As Validate, without the check of the operation name.
ValidateAnything(op) == TRUE

\* if op not in {"fetch", "insert", "update", "delete"}: raise ValueError
Validate(op) == op \in ValidOps

\* As SubmitCall, with a submit that refuses new tasks once the stop flag
\* is set (if self._shutdown.is_set(): raise RuntimeError).
SubmitCallRefusedAfterStop(c, r, op, kw) ==
    /\ cpc[c] = "idle"
    /\ ~shutdown_flag
    /\ IF Validate(op)
       THEN /\ next_id <= MaxTasks
            /\ status' = status @@ (next_id :> NewRecord(next_id, r, op, kw))
            /\ ctask' = [ctask EXCEPT ![c] =
                   [task_id |-> next_id, db_path |-> r, op |-> op, kwargs |-> kw]]
            /\ next_id' = next_id + 1
            /\ cpc' = [cpc EXCEPT ![c] = "put"]
            /\ raised' = [raised EXCEPT ![c] = FALSE]
       ELSE /\ raised' = [raised EXCEPT ![c] = TRUE]
            /\ UNCHANGED <<status, callerVars>>
    /\ UNCHANGED <<poolConst, seen, waiter, task_queue, unfinished, db_locks,
                   lock_owner, shutdown_flag, workerVars, applied, sdVars>>

\* As SubmitCall, had submit put the descriptor on the queue before it
\* stored the record: the step up to and including the put.
SubmitCallQueuesFirst(c, r, op, kw) ==
    /\ cpc[c] = "idle"
    /\ IF Validate(op)
       THEN /\ next_id <= MaxTasks
            /\ task_queue' = Append(task_queue,
                   [task_id |-> next_id, db_path |-> r, op |-> op, kwargs |-> kw])
            /\ unfinished' = unfinished + 1
            /\ ctask' = [ctask EXCEPT ![c] =
                   [task_id |-> next_id, db_path |-> r, op |-> op, kwargs |-> kw]]
            /\ next_id' = next_id + 1
            /\ cpc' = [cpc EXCEPT ![c] = "put"]
            /\ raised' = [raised EXCEPT ![c] = FALSE]
       ELSE /\ raised' = [raised EXCEPT ![c] = TRUE]
            /\ UNCHANGED <<task_queue, unfinished, callerVars>>
    /\ UNCHANGED <<poolConst, seen, waiter, status, db_locks, lock_owner,
                   shutdown_flag, workerVars, applied, sdVars>>

\* One call submit(r, op, **kw) by caller c, up to and including
\* self.status[task_id] = {...}, or up to the raise.
SubmitCall(c, r, op, kw) ==
    /\ cpc[c] = "idle"
    /\ IF Validate(op)
       THEN /\ next_id <= MaxTasks
            /\ status' = status @@ (next_id :> NewRecord(next_id, r, op, kw))
            /\ ctask' = [ctask EXCEPT ![c] =
                   [task_id |-> next_id, db_path |-> r, op |-> op, kwargs |-> kw]]
            /\ next_id' = next_id + 1
            /\ cpc' = [cpc EXCEPT ![c] = "put"]
            /\ raised' = [raised EXCEPT ![c] = FALSE]
       ELSE /\ raised' = [raised EXCEPT ![c] = TRUE]
            /\ UNCHANGED <<status, callerVars>>
    /\ UNCHANGED <<poolConst, seen, waiter, task_queue, unfinished, db_locks,
                   lock_owner, shutdown_flag, workerVars, applied, sdVars>>

\* submit with a supported operation name
SubmitRecord(c) ==
    \E r \in Resources, op \in ModelOps, kw \in Kwargs : SubmitCall(c, r, op, kw)

\* submit with an operation name the pool does not support
SubmitInvalid(c) ==
    \E r \in Resources, op \in InvalidOps, kw \in Kwargs : SubmitCall(c, r, op, kw)

\* As SubmitPut, on a queue built with queue.Queue(maxsize=1): put waits
\* while the queue is full.
SubmitPutBounded(c) ==
    /\ cpc[c] = "put"
    /\ Len(task_queue) < 1
    /\ task_queue' = Append(task_queue, ctask[c])
    /\ unfinished' = unfinished + 1
    /\ cpc' = [cpc EXCEPT ![c] = "idle"]
    /\ ctask' = [ctask EXCEPT ![c] = NoTask]
    /\ UNCHANGED <<poolConst, clientVars, status, db_locks, lock_owner,
                   shutdown_flag, workerVars, applied, next_id, sdVars>>

\* submit: self.task_queue.put(...); return task_id
SubmitPut(c) ==
    /\ cpc[c] = "put"
    /\ task_queue' = Append(task_queue, ctask[c])
    /\ unfinished' = unfinished + 1
    /\ cpc' = [cpc EXCEPT ![c] = "idle"]
    /\ ctask' = [ctask EXCEPT ![c] = NoTask]
    /\ UNCHANGED <<poolConst, clientVars, status, db_locks, lock_owner, shutdown_flag,
                   workerVars, applied, next_id, sdVars>>

\* ---- _worker -------------------------------------------------------------
\* As Check, with a loop that never looks at the stop flag (while True).
CheckIgnoresFlag(w) ==
    /\ pc[w] = "check"
    /\ pc' = [pc EXCEPT ![w] = "get"]
    /\ UNCHANGED <<poolConst, clientVars, task_queue, unfinished, status, db_locks,
                   lock_owner, shutdown_flag, task, lock, mgr, outcome,
                   applied, callerVars, sdVars>>

\* while not self._shutdown.is_set()
Check(w) ==
    /\ pc[w] = "check"
    /\ pc' = [pc EXCEPT ![w] = IF shutdown_flag THEN "exited" ELSE "get"]
    /\ UNCHANGED <<poolConst, clientVars, task_queue, unfinished, status, db_locks,
                   lock_owner, shutdown_flag, task, lock, mgr, outcome,
                   applied, callerVars, sdVars>>

\* As Get, on a queue.LifoQueue: the newest descriptor is taken.
GetNewest(w) ==
    /\ pc[w] = "get"
    /\ IF task_queue # <<>>
       THEN /\ task' = [task EXCEPT ![w] = task_queue[Len(task_queue)]]
            /\ task_queue' = SubSeq(task_queue, 1, Len(task_queue) - 1)
            /\ pc' = [pc EXCEPT ![w] = "mark_running"]
       ELSE /\ pc' = [pc EXCEPT ![w] = "check"]
            /\ UNCHANGED <<task, task_queue>>
    /\ UNCHANGED <<poolConst, clientVars, unfinished, status, db_locks,
                   lock_owner, shutdown_flag, lock, mgr, outcome, applied,
                   callerVars, sdVars>>

\* self.task_queue.get(timeout=0.5): the head of the queue, or queue.Empty
\* and `continue` when the queue stayed empty.
Get(w) ==
    /\ pc[w] = "get"
    /\ IF task_queue # <<>>
       THEN /\ task' = [task EXCEPT ![w] = Head(task_queue)]
            /\ task_queue' = Tail(task_queue)
            /\ pc' = [pc EXCEPT ![w] = "mark_running"]
       ELSE /\ pc' = [pc EXCEPT ![w] = "check"]
            /\ UNCHANGED <<task, task_queue>>
    /\ UNCHANGED <<poolConst, clientVars, unfinished, status, db_locks, lock_owner,
                   shutdown_flag, lock, mgr, outcome, applied, callerVars,
                   sdVars>>

\* As MarkRunning, without the write of the status.
MarkRunningForgotten(w) ==
    /\ pc[w] = "mark_running"
    /\ status' = [status EXCEPT ![task[w].task_id].started_at = TRUE]
    /\ pc' = [pc EXCEPT ![w] = "setdefault"]
    /\ UNCHANGED <<poolConst, clientVars, task_queue, unfinished, db_locks,
                   lock_owner, shutdown_flag, task, lock, mgr, outcome,
                   applied, callerVars, sdVars>>

\* self.status[task_id]["status"] = "running"
\* self.status[task_id]["started_at"] = time.time()
\* (two consecutive writes of the worker to the record it alone writes)
MarkRunning(w) ==
    /\ pc[w] = "mark_running"
    /\ status' = [status EXCEPT ![task[w].task_id].status = "running",
                                ![task[w].task_id].started_at = TRUE]
    /\ pc' = [pc EXCEPT ![w] = "setdefault"]
    /\ UNCHANGED <<poolConst, clientVars, task_queue, unfinished, db_locks, lock_owner,
                   shutdown_flag, task, lock, mgr, outcome, applied,
                   callerVars, sdVars>>

\* As SetDefaultLocks, had the worker written
\* self.db_locks[db_path] = threading.Lock() instead.
SetDefaultLocksFresh(r) ==
    IF r \in DOMAIN db_locks THEN [db_locks EXCEPT ![r] = Len(lock_owner) + 1]
    ELSE db_locks @@ (r :> Len(lock_owner) + 1)

\* As SetDefaultLocks, with one lock shared by every database.
SetDefaultLocksShared(r) ==
    IF r \in DOMAIN db_locks THEN db_locks ELSE db_locks @@ (r :> 1)

\* dict.setdefault(db_path, threading.Lock()): one atomic dictionary
\* operation; the fresh Lock is kept only when the key was absent.
SetDefaultLocks(r) ==
    IF r \in DOMAIN db_locks THEN db_locks
    ELSE db_locks @@ (r :> Len(lock_owner) + 1)

\* lock = self.db_locks.setdefault(db_path, threading.Lock())
SetDefault(w) ==
    /\ pc[w] = "setdefault"
    /\ db_locks' = SetDefaultLocks(task[w].db_path)
    /\ lock_owner' = IF db_locks' = db_locks THEN lock_owner
                     ELSE Append(lock_owner, 0)
    /\ lock' = [lock EXCEPT ![w] = db_locks'[task[w].db_path]]
    /\ pc' = [pc EXCEPT ![w] = "acquire"]
    /\ UNCHANGED <<poolConst, clientVars, task_queue, unfinished, status, shutdown_flag,
                   task, mgr, outcome, applied, callerVars, sdVars>>

\* As CanAcquire, for a lock that does not block.
CanAcquireAlways(l) == TRUE

\* threading.Lock.acquire() succeeds only on an unlocked lock
CanAcquire(l) == lock_owner[l] = 0

\* As Acquire, had the worker gone on without taking the lock.
AcquireWithoutLocking(w) ==
    /\ pc[w] = "acquire"
    /\ pc' = [pc EXCEPT ![w] = "connect"]
    /\ UNCHANGED <<poolConst, clientVars, task_queue, unfinished, status, db_locks,
                   lock_owner, shutdown_flag, task, lock, mgr, outcome,
                   applied, callerVars, sdVars>>

\* As Acquire, on a lock that serves its waiters in the order of their
\* task ids.
AcquireInTurn(w) ==
    /\ pc[w] = "acquire"
    /\ CanAcquire(lock[w])
    /\ \A v \in Workers :
          (pc[v] = "acquire" /\ lock[v] = lock[w]) =>
              task[w].task_id <= task[v].task_id
    /\ lock_owner' = [lock_owner EXCEPT ![lock[w]] = w]
    /\ pc' = [pc EXCEPT ![w] = "connect"]
    /\ UNCHANGED <<poolConst, clientVars, task_queue, unfinished, status,
                   db_locks, shutdown_flag, task, lock, mgr, outcome, applied,
                   callerVars, sdVars>>

\* with lock:  (__enter__)
Acquire(w) ==
    /\ pc[w] = "acquire"
    /\ CanAcquire(lock[w])
    /\ lock_owner' = [lock_owner EXCEPT ![lock[w]] = w]
    /\ pc' = [pc EXCEPT ![w] = "connect"]
    /\ UNCHANGED <<poolConst, clientVars, task_queue, unfinished, status, db_locks,
                   shutdown_flag, task, lock, mgr, outcome, applied,
                   callerVars, sdVars>>

\* As Connect, had the worker used lock.acquire() ... lock.release()
\* instead of the with statement: the exception of connect skips the release.
ConnectFailureKeepsLock(w) ==
    /\ pc[w] = "connect"
    /\ \E ok \in BOOLEAN :
         IF ok
         THEN /\ mgr' = [mgr EXCEPT ![w] = task[w].db_path]
              /\ pc' = [pc EXCEPT ![w] = "call"]
         ELSE /\ pc' = [pc EXCEPT ![w] = "dead"]
              /\ UNCHANGED mgr
    /\ UNCHANGED <<poolConst, clientVars, task_queue, unfinished, status,
                   db_locks, lock_owner, lock, shutdown_flag, task, outcome,
                   applied, callerVars, sdVars>>

\* mgr = SQLiteManager(...); mgr.connect(db_path).  The call is outside the
\* try block: when sqlite3.connect raises, the with statement releases the
\* lock and the exception leaves _worker, which ends the thread.
Connect(w) ==
    /\ pc[w] = "connect"
    /\ \E ok \in BOOLEAN :
         IF ok
         THEN /\ mgr' = [mgr EXCEPT ![w] = task[w].db_path]
              /\ pc' = [pc EXCEPT ![w] = "call"]
              /\ UNCHANGED <<lock_owner, lock>>
         ELSE /\ lock_owner' = [lock_owner EXCEPT ![lock[w]] = 0]
              /\ lock' = [lock EXCEPT ![w] = NoLock]
              /\ pc' = [pc EXCEPT ![w] = "dead"]
              /\ UNCHANGED mgr
    /\ UNCHANGED <<poolConst, clientVars, task_queue, unfinished, status, db_locks,
                   shutdown_flag, task, outcome, applied, callerVars, sdVars>>

\* As ApplyOp, with the insert executed twice.
ApplyOpTwice(r, op) ==
    IF op = "insert" THEN [applied EXCEPT ![r] = @ + 2] ELSE applied

\* Rows committed by a successful call of op on r.
ApplyOp(r, op) ==
    IF op = "insert" THEN [applied EXCEPT ![r] = @ + 1] ELSE applied

\* method = getattr(mgr, op_name); result = method(**kwargs): returns, or
\* raises with nothing committed.
Call(w) ==
    /\ pc[w] = "call"
    /\ \E ok \in BOOLEAN :
         IF ok
         THEN /\ applied' = ApplyOp(task[w].db_path, task[w].op)
              /\ outcome' = [outcome EXCEPT ![w] = "result"]
         ELSE /\ outcome' = [outcome EXCEPT ![w] = "exc"]
              /\ UNCHANGED applied
    /\ pc' = [pc EXCEPT ![w] = "update"]
    /\ UNCHANGED <<poolConst, clientVars, task_queue, unfinished, status, db_locks,
                   lock_owner, shutdown_flag, task, lock, mgr, callerVars,
                   sdVars>>

\* As UpdatedRecord, with an except branch that keeps the error to itself.
UpdatedRecordNoMessage(rec, o) ==
    IF o = "result"
    THEN [rec EXCEPT !.status = "completed", !.result = "result", !.error = NoneVal]
    ELSE [rec EXCEPT !.status = "error", !.error = NoneVal, !.result = NoneVal]

\* As UpdatedRecord, had the worker assigned the new dict to
\* self.status[task_id] instead of updating the stored one.
UpdatedRecordReplaced(rec, o) ==
    IF o = "result"
    THEN [status |-> "completed", result |-> "result", error |-> NoneVal]
    ELSE [status |-> "error", error |-> "str(exc)", result |-> NoneVal]

\* The record after self.status[task_id].update({...}) of the try branch
\* (o = "result") or of the except branch (o = "exc").
UpdatedRecord(rec, o) ==
    IF o = "result"
    THEN [rec EXCEPT !.status = "completed", !.result = "result", !.error = NoneVal]
    ELSE [rec EXCEPT !.status = "error", !.error = "str(exc)", !.result = NoneVal]

\* As Update, with an except branch that puts the failed task back on the
\* queue for another try.
UpdateRequeuesOnError(w) ==
    /\ pc[w] = "update"
    /\ status' = [status EXCEPT ![task[w].task_id] = UpdatedRecord(@, outcome[w])]
    /\ task_queue' = IF outcome[w] = "exc" THEN Append(task_queue, task[w])
                     ELSE task_queue
    /\ outcome' = [outcome EXCEPT ![w] = NoneVal]
    /\ pc' = [pc EXCEPT ![w] = "close"]
    /\ UNCHANGED <<poolConst, clientVars, unfinished, db_locks, lock_owner,
                   shutdown_flag, task, lock, mgr, applied, callerVars, sdVars>>

\* self.status[task_id].update({...})
Update(w) ==
    /\ pc[w] = "update"
    /\ status' = [status EXCEPT ![task[w].task_id] = UpdatedRecord(@, outcome[w])]
    /\ outcome' = [outcome EXCEPT ![w] = NoneVal]
    /\ pc' = [pc EXCEPT ![w] = "close"]
    /\ UNCHANGED <<poolConst, clientVars, task_queue, unfinished, db_locks, lock_owner,
                   shutdown_flag, task, lock, mgr, applied, callerVars, sdVars>>

\* As Close, with mgr.close() as the last statement of the try block
\* instead of a finally clause: it is skipped when the operation raised.
CloseOnSuccessOnly(w) ==
    /\ pc[w] = "close"
    /\ mgr' = [mgr EXCEPT ![w] =
                 IF status[task[w].task_id].status = "error" THEN @ ELSE NoneVal]
    /\ pc' = [pc EXCEPT ![w] = "release"]
    /\ UNCHANGED <<poolConst, clientVars, task_queue, unfinished, status,
                   db_locks, lock_owner, shutdown_flag, task, lock, outcome,
                   applied, callerVars, sdVars>>

\* finally: mgr.close()
Close(w) ==
    /\ pc[w] = "close"
    /\ mgr' = [mgr EXCEPT ![w] = NoneVal]
    /\ pc' = [pc EXCEPT ![w] = "release"]
    /\ UNCHANGED <<poolConst, clientVars, task_queue, unfinished, status, db_locks,
                   lock_owner, shutdown_flag, task, lock, outcome, applied,
                   callerVars, sdVars>>

\* As Release, had the worker left the block without releasing the lock.
ReleaseKeepsLock(w) ==
    /\ pc[w] = "release"
    /\ lock' = [lock EXCEPT ![w] = NoLock]
    /\ pc' = [pc EXCEPT ![w] = "mark_finished"]
    /\ UNCHANGED <<poolConst, clientVars, task_queue, unfinished, status, db_locks,
                   lock_owner, shutdown_flag, task, mgr, outcome, applied,
                   callerVars, sdVars>>

\* end of the with block (__exit__): the lock is released
Release(w) ==
    /\ pc[w] = "release"
    /\ lock_owner' = [lock_owner EXCEPT ![lock[w]] = 0]
    /\ lock' = [lock EXCEPT ![w] = NoLock]
    /\ pc' = [pc EXCEPT ![w] = "mark_finished"]
    /\ UNCHANGED <<poolConst, clientVars, task_queue, unfinished, status, db_locks,
                   shutdown_flag, task, mgr, outcome, applied, callerVars,
                   sdVars>>

\* As MarkFinished, in a pool that evicts the record of a finished task
\* (del self.status[task_id]).
MarkFinishedEvicts(w) ==
    /\ pc[w] = "mark_finished"
    /\ status' = [t \in DOMAIN status \ {task[w].task_id} |-> status[t]]
    /\ unfinished' = unfinished - 1
    /\ task' = [task EXCEPT ![w] = NoTask]
    /\ pc' = [pc EXCEPT ![w] = "check"]
    /\ UNCHANGED <<poolConst, clientVars, task_queue, db_locks, lock_owner,
                   shutdown_flag, lock, mgr, outcome, applied,
                   callerVars, sdVars>>

\* self.status[task_id]["finished_at"] = time.time()
\* self.task_queue.task_done(), then back to the loop condition; the locals
\* of this iteration are not read again.
MarkFinished(w) ==
    /\ pc[w] = "mark_finished"
    /\ status' = [status EXCEPT ![task[w].task_id].finished_at = TRUE]
    /\ unfinished' = unfinished - 1
    /\ task' = [task EXCEPT ![w] = NoTask]
    /\ pc' = [pc EXCEPT ![w] = "check"]
    /\ UNCHANGED <<poolConst, clientVars, task_queue, db_locks, lock_owner,
                   shutdown_flag, lock, mgr, outcome, applied,
                   callerVars, sdVars>>

\* one step of worker thread w
Worker(w) ==
    \/ Check(w) \/ Get(w) \/ MarkRunning(w) \/ SetDefault(w) \/ Acquire(w)
    \/ Connect(w) \/ Call(w) \/ Update(w) \/ Close(w) \/ Release(w)
    \/ MarkFinished(w)

\* ---- shutdown ------------------------------------------------------------
\* The ids submit has returned: the record is stored and the put is done.
Submitted == {t \in TaskIds : \A c \in Callers : ctask[c].task_id # t}

\* What an observer of the pool sees at the instant the flag is set.
Snapshot ==
    [queued |-> QueueIds,
     in_get |-> {w \in Workers : pc[w] = "get"},
     running |-> {t \in TaskIds : status[t].status = "running"},
     submitted |-> Submitted]

\* shutdown(wait): self._shutdown.set()
Shutdown ==
    /\ sd_pc = "idle"
    /\ shutdown_flag' = TRUE
    /\ \E wait \in BOOLEAN :
         /\ sd_wait' = wait
         /\ sd_pc' = IF wait THEN "join" ELSE "returned"
    /\ UNCHANGED <<poolConst, clientVars, task_queue, unfinished, status, db_locks,
                   lock_owner, workerVars, applied, callerVars, sd_i>>

\* for t in self.workers: t.join()
Join ==
    /\ sd_pc = "join"
    /\ IF sd_i > num_workers
       THEN /\ sd_pc' = "returned"
            /\ UNCHANGED sd_i
       ELSE /\ Terminated(sd_i)
            /\ sd_i' = sd_i + 1
            /\ UNCHANGED sd_pc
    /\ UNCHANGED <<poolConst, clientVars, task_queue, unfinished, status, db_locks,
                   lock_owner, shutdown_flag, workerVars, applied,
                   callerVars, sd_wait, at_stop>>

\* ---- the pool ------------------------------------------------------------
Submit == \E c \in Callers : SubmitRecord(c) \/ SubmitPut(c)

Next ==
    \/ Submit
    \/ \E w \in Workers : Worker(w)
    \/ Shutdown /\ UNCHANGED at_stop
    \/ Join

Spec == Init /\ [][Next]_vars

\* The same pool, with the state at the instant of shutdown kept in at_stop.
NextObserved ==
    \/ Submit
    \/ \E w \in Workers : Worker(w)
    \/ Shutdown /\ at_stop' = Snapshot
    \/ Join

ObservedSpec == Init /\ [][NextObserved]_vars

\* Pools of every size whose workers poll an empty queue until shutdown.
NextSizing ==
    \/ \E w \in Workers : Check(w) \/ Get(w)
    \/ Shutdown /\ UNCHANGED at_stop
    \/ Join

SizingSpec == SizingInit /\ [][NextSizing]_vars

\* The same pool, with only the queue at the instant of shutdown kept.
NextQueueObserved ==
    \/ Submit
    \/ \E w \in Workers : Worker(w)
    \/ Shutdown /\ at_stop' = [queued |-> QueueIds]
    \/ Join

QueueObservedSpec == Init /\ [][NextQueueObserved]_vars

\* The same pool, with only the ids of the status table at the instant of
\* shutdown kept.
NextIdsObserved ==
    \/ Submit
    \/ \E w \in Workers : Worker(w)
    \/ Shutdown /\ at_stop' = [known |-> TaskIds]
    \/ Join

IdsObservedSpec == Init /\ [][NextIdsObserved]_vars

\* The pools built on fewer than 8 databases.
SmallInit == \E c \in {n \in 0..MaxDbs : n < 8} : Constructed(c)

SmallSpec == SmallInit /\ [][Next]_vars

\* The same pool, with callers that also pass unsupported operation names.
NextValidation ==
    \/ Next
    \/ \E c \in Callers : SubmitInvalid(c)

ValidationSpec == Init /\ [][NextValidation]_vars

\* Threads are scheduled by the operating system: a thread that can take a
\* step eventually takes one.  Callers are free to submit or not.
FairSpec ==
    /\ Spec
    /\ \A w \in 1..5 : WF_vars(w \in Workers /\ Worker(w))
    /\ WF_vars(Join)

\* ---- get_status -----------------------------------------------------------
\* As get_status, had the default of dict.get been left out (None).
get_status_no_default(t) ==
    IF t \in DOMAIN status THEN status[t] ELSE [status |-> NoneVal]

\* self.status.get(task_id, {"status": "unknown"})
get_status(t) == IF t \in DOMAIN status THEN status[t] ELSE [status |-> "unknown"]

\* The ids submit has returned to some caller so far.
ReturnedIds == (1..(next_id - 1)) \ {ctask[c].task_id : c \in Callers}

\* One call get_status(t) by a thread of the application.  dict.get hands
\* out the dict stored in the table itself, not a copy of it: for an id of
\* the table the caller holds a reference to the entry ([entry |-> t]), and
\* only the default record is an object of its own.
GetStatus(t) ==
    /\ seen' = [id |-> t,
                rec |-> IF t \in DOMAIN status THEN [entry |-> t]
                                               ELSE get_status(t)]
    /\ UNCHANGED <<poolConst, raised, waiter, task_queue, unfinished, status,
                   db_locks, lock_owner, shutdown_flag, workerVars, applied,
                   callerVars, sdVars>>

\* What the caller of the last get_status reads in the record it was given.
SeenRecord ==
    IF "entry" \in DOMAIN seen.rec THEN get_status(seen.rec.entry) ELSE seen.rec

\* The same pool, with a thread that polls get_status for ids submit has
\* returned and for an id of another pool.
NextPoll ==
    \/ Next
    \/ \E t \in ReturnedIds \cup {ForeignId} : GetStatus(t)

PollSpec == Init /\ [][NextPoll]_vars

\* ---- FillerAgent.wait_for_tasks ------------------------------------------
\* The lists of at most MaxGiven ids a caller passes, repetitions included.
\* set(task_ids) forgets the order of the list, so one order of each list
\* is enough.
IdLists(S) ==
    {l \in UNION {[1..n -> S] : n \in 0..MaxGiven} :
        \A i \in 1..(Len(l) - 1) : l[i] <= l[i + 1]}

Range(l) == {l[i] : i \in 1..Len(l)}

\* As Finished, with the test written as `status not in {"queued","running"}`.
FinishedUnlessPending(s) == s \notin {"queued", "running"}

\* if status in {"completed", "error"}
Finished(s) == s \in {"completed", "error"}

\* wait_for_tasks(task_ids) up to the first task_status call of the first
\* pass, or up to the return when `while remaining` fails at once.
wait_for_tasks(ids) ==
    /\ waiter.pc = "idle"
    /\ waiter' = [pc |-> IF Range(ids) = {} THEN "returned" ELSE "for",
                  task_ids |-> ids, remaining |-> Range(ids),
                  todo |-> Range(ids), done_now |-> {}, completed |-> 0,
                  errors |-> 0, details |-> {}]
    /\ UNCHANGED <<poolConst, raised, seen, task_queue, unfinished, status,
                   db_locks, lock_owner, shutdown_flag, workerVars, applied,
                   callerVars, sdVars>>

\* One iteration of `for tid in list(remaining)`: task_status(tid), which
\* is _pool.get_status(tid), and the bookkeeping of a finished task.
PollTask(tid) ==
    /\ waiter.pc = "for"
    /\ tid \in waiter.todo
    /\ LET st == get_status(tid)
       IN  waiter' = [waiter EXCEPT
               !.todo = @ \ {tid},
               !.details = IF Finished(st.status) THEN @ \cup {tid} ELSE @,
               !.done_now = IF Finished(st.status) THEN @ \cup {tid} ELSE @,
               !.completed = IF Finished(st.status) /\ st.status = "completed"
                             THEN @ + 1 ELSE @,
               !.errors = IF Finished(st.status) /\ st.status # "completed"
                          THEN @ + 1 ELSE @]
    /\ UNCHANGED <<poolConst, raised, seen, task_queue, unfinished, status,
                   db_locks, lock_owner, shutdown_flag, workerVars, applied,
                   callerVars, sdVars>>

\* The end of a pass: remaining.discard(tid) for the ids of done_now, then
\* the return when nothing remains, else the sleep and the start of the
\* next pass (done_now = [], list(remaining)).
EndPass ==
    /\ waiter.pc = "for"
    /\ waiter.todo = {}
    /\ LET rem == waiter.remaining \ waiter.done_now
       IN  waiter' = [waiter EXCEPT
               !.remaining = rem,
               !.done_now = {},
               !.todo = rem,
               !.pc = IF rem = {} THEN "returned" ELSE "for"]
    /\ UNCHANGED <<poolConst, raised, seen, task_queue, unfinished, status,
                   db_locks, lock_owner, shutdown_flag, workerVars, applied,
                   callerVars, sdVars>>

\* The same pool, with a thread that waits for a list of ids made of ids
\* submit has returned and of an id of another pool.
NextWait ==
    \/ Next
    \/ \E ids \in IdLists(ReturnedIds \cup {ForeignId}) : wait_for_tasks(ids)
    \/ \E tid \in waiter.todo : PollTask(tid)
    \/ EndPass

WaitSpec == Init /\ [][NextWait]_vars

\* ---- vocabulary of the properties ----------------------------------------
Terminal(t) == status[t].status \in {"completed", "error"}
\* w is between acquiring its lock and releasing it
InCS(w) == pc[w] \in {"connect", "call", "update", "close", "release"}
\* the tasks for resource r
TasksOn(r) == {t \in TaskIds : status[t].db_path = r}
\* the tasks whose worker is inside the critical section
Executing == {task[w].task_id : w \in {v \in Workers : InCS(v)}}
\* the tasks whose worker was ended by an exception of connect
ConnectFailed == {task[w].task_id : w \in {v \in Workers : pc[v] = "dead"}}
LiveWorkers == {w \in Workers : ~Terminated(w)}
CompletedInserts(r) ==
    {t \in TasksOn(r) : status[t].op = "insert" /\ status[t].status = "completed"}
ShutdownReturned == sd_pc = "returned" /\ sd_wait

\* ---- C1 ------------------------------------------------------------------
\* C1 as stated: for every resource at most one of its tasks has status
\* 'running' (equivalently, no two of its tasks are both started and not
\* finished at the same instant).
C1_AtMostOneRunning ==
    \A r \in Resources :
        /\ Cardinality({t \in TasksOn(r) : status[t].status = "running"}) <= 1
        /\ Cardinality({t \in TasksOn(r) : status[t].started_at
                                           /\ ~status[t].finished_at}) <= 1

\* C1 amended: for every resource at most one of its tasks is being executed
\* (its worker is between acquiring the resource's lock and releasing it);
\* other tasks of the resource may be 'running' while they wait for the lock.
C1_AtMostOneExecuting ==
    \A r \in Resources : Cardinality(TasksOn(r) \cap Executing) <= 1

\* Two tasks of one resource are 'running', one executing, one waiting.
C1_Witness ==
    \E t1, t2 \in TaskIds :
        /\ t1 # t2
        /\ status[t1].db_path = status[t2].db_path
        /\ status[t1].status = "running" /\ status[t2].status = "running"
        /\ t1 \in Executing
        /\ \E w \in Workers : pc[w] = "acquire" /\ task[w].task_id = t2

\* ---- C2 ------------------------------------------------------------------
\* C2: no two workers are inside the critical section for the same database,
\* and no database has two open handles.
C2_OneWorkerPerDatabase ==
    \A w1, w2 \in Workers :
        w1 # w2 =>
          /\ (InCS(w1) /\ InCS(w2)) => task[w1].db_path # task[w2].db_path
          /\ mgr[w1] # NoneVal => mgr[w1] # mgr[w2]

\* A worker has a handle open on a database another worker is waiting for.
C2_Witness ==
    \E w1, w2 \in Workers :
        /\ pc[w1] = "call" /\ mgr[w1] = task[w1].db_path
        /\ pc[w2] = "acquire" /\ task[w2].db_path = task[w1].db_path

\* ---- C3 ------------------------------------------------------------------
\* C3: the lock a worker obtained for a resource is the registry's lock of
\* that resource, and a registry entry is never replaced or removed.
C3_OneLockPerResource ==
    /\ [](\A w \in Workers : lock[w] # NoLock =>
              /\ task[w].db_path \in DOMAIN db_locks
              /\ lock[w] = db_locks[task[w].db_path])
    /\ [][\A r \in DOMAIN db_locks :
              r \in DOMAIN db_locks' /\ db_locks'[r] = db_locks[r]]_vars

\* Two workers looked up the lock of a database that was not known at
\* construction and hold the same lock object.
C3_Witness ==
    \E w1, w2 \in Workers :
        /\ w1 # w2
        /\ task[w1].db_path = "db2" /\ task[w2].db_path = "db2"
        /\ lock[w1] # NoLock /\ lock[w1] = lock[w2]

\* ---- C4 ------------------------------------------------------------------
\* C4 as stated: every task whose id submit has returned eventually is 'completed'
\* or 'error', unless shutdown was signalled while it was 'queued', and a
\* terminal status never changes.
C4_EveryTaskTerminates ==
    /\ \A t \in 1..MaxTasks :
          (t \in Submitted) ~>
              (\/ get_status(t).status \in {"completed", "error"}
               \/ shutdown_flag /\ get_status(t).status = "queued")
    /\ [][\A t \in TaskIds : Terminal(t) =>
              status'[t].status = status[t].status]_vars

\* ---- C5 ------------------------------------------------------------------
\* C5 as stated: before shutdown every worker started at construction is
\* alive, whatever the adapter did.
C5_WorkersSurvive ==
    ~shutdown_flag => Cardinality(LiveWorkers) = num_workers

\* ---- C6 ------------------------------------------------------------------
\* C6 as stated: a task whose connect failed eventually has status 'error'
\* with an error message and no result, and is never 'completed'.
C6_ConnectErrorRecorded ==
    /\ \A t \in 1..MaxTasks :
          (t \in ConnectFailed) ~>
              (/\ get_status(t).status = "error"
               /\ status[t].error # NoneVal
               /\ status[t].result = NoneVal)
    /\ [](\A t \in ConnectFailed : status[t].status # "completed")

\* ---- C7 ------------------------------------------------------------------
\* C7 as stated: a task that was in the queue when the stop flag was set is
\* never dequeued and keeps status 'queued'.
C7_QueuedStaysQueued ==
    \A t \in at_stop.queued : t \in QueueIds /\ status[t].status = "queued"

\* C7 amended: after the stop flag is set no worker passes its loop check
\* again, so the tasks dequeued after the flag was set are at most as many as
\* the workers that were between the check and the get at that instant; the
\* other tasks of the queue stay in the queue with status 'queued'.
C7_OnlyWindowDequeues ==
    /\ [](/\ Cardinality({t \in at_stop.queued : t \notin QueueIds})
               <= Cardinality(at_stop.in_get)
          /\ \A t \in at_stop.queued \cap QueueIds : status[t].status = "queued")
    /\ [][shutdown_flag =>
              \A w \in Workers : pc'[w] = "get" => pc[w] = "get"]_vars

\* Of two tasks in the queue at shutdown one was dequeued afterwards and the
\* other is still queued when every worker has ended.
C7_Witness ==
    /\ \A w \in Workers : Terminated(w)
    /\ \E t1, t2 \in at_stop.queued :
          /\ t1 \notin QueueIds
          /\ t2 \in QueueIds /\ status[t2].status = "queued"

\* ---- C8 ------------------------------------------------------------------
\* The scenario of C8: every task is an insert on db1 that was submitted
\* before shutdown(wait=True) was called, and no adapter call failed.
C8_Scenario ==
    /\ ShutdownReturned
    /\ TaskIds # {}
    /\ at_stop.submitted = TaskIds
    /\ \A t \in TaskIds : status[t].db_path = "db1" /\ status[t].op = "insert"
    /\ \A t \in TaskIds : status[t].status # "error"
    /\ \A w \in Workers : pc[w] # "dead"

C9_ShutdownReturns ==
    /\ (sd_pc = "join") ~> (sd_pc = "returned")
    /\ [](ShutdownReturned => \A w \in Workers : Terminated(w))
    /\ [][ShutdownReturned =>
              \A t \in TaskIds : status'[t] = status[t]]_vars

\* shutdown(wait=True) has returned with a task still in the queue.
C9_Witness ==
    /\ ShutdownReturned
    /\ \E t \in QueueIds : status[t].status = "queued"
    /\ \E t \in TaskIds : Terminal(t)

\* ---- C10 -----------------------------------------------------------------
\* C10 as stated: the worker of a task that was 'running' when the stop flag
\* was set does not end before the task is 'completed' or 'error'.
C10_RunningTaskFinishes ==
    [][\A w \in Workers :
          (/\ shutdown_flag
           /\ task[w].task_id \in at_stop.running
           /\ ~Terminated(w)
           /\ pc'[w] \in {"exited", "dead"})
          => status'[task[w].task_id].status \in {"completed", "error"}]_vars
\* ---- C11 -----------------------------------------------------------------
\* C11: a submit call that ends with ValueError leaves the status table and
\* the queue as they were, and no record or queued descriptor ever has an
\* operation name outside {fetch, insert, update, delete}.
C11_InvalidSubmitHasNoEffect ==
    /\ [][\A c \in Callers : (raised'[c] /\ ~raised[c]) =>
              /\ status' = status
              /\ task_queue' = task_queue
              /\ unfinished' = unfinished
              /\ next_id' = next_id]_vars
    /\ [](/\ \A t \in TaskIds : status[t].op \in {"fetch", "insert", "update", "delete"}
          /\ \A i \in 1..Len(task_queue) :
                 task_queue[i].op \in {"fetch", "insert", "update", "delete"}
          /\ \A c \in Callers : raised[c] => cpc[c] = "idle")

\* A submit call has raised ValueError in a pool that holds a queued task.
C11_Witness ==
    /\ \E c \in Callers : raised[c]
    /\ \E t \in QueueIds : status[t].status = "queued"
\* ---- C12 -----------------------------------------------------------------
\* C12: get_status can be called for an id the pool never issued in every
\* state, answers the record {status: 'unknown'}, and the status table is the
\* same after the call, without an entry for that id.
C12_UnknownIdSentinel ==
    /\ [](/\ ENABLED GetStatus(ForeignId)
          /\ seen.id = ForeignId => seen.rec = [status |-> "unknown"]
          /\ ForeignId \notin DOMAIN status)
    /\ [][seen' # seen => status' = status]_vars

\* The answer for the foreign id, in a pool that has tasks and is shut down.
C12_Witness ==
    /\ seen.id = ForeignId
    /\ seen.rec.status = "unknown"
    /\ shutdown_flag
    /\ \E t \in TaskIds : Terminal(t)
\* ---- C13 -----------------------------------------------------------------
\* C13: a status changes only from 'queued' to 'running' and from 'running'
\* to 'completed' or 'error'; a new record starts as 'queued'.
C13_StatusMovesForward ==
    [][/\ \A t \in TaskIds :
            \/ status'[t].status = status[t].status
            \/ status[t].status = "queued" /\ status'[t].status = "running"
            \/ /\ status[t].status = "running"
               /\ status'[t].status \in {"completed", "error"}
       /\ \A t \in DOMAIN status' \ TaskIds : status'[t].status = "queued"]_vars

\* One task has gone all the way to 'completed', another to 'error'.
C13_Witness ==
    \E t1, t2 \in TaskIds :
        status[t1].status = "completed" /\ status[t2].status = "error"

\* ---- C14 -----------------------------------------------------------------
\* C14: result and error are unset while a task is 'queued' or 'running'; a
\* 'completed' task has no error, an 'error' task has an error and no result;
\* both fields change only in the step that makes the status terminal.
C14_ResultErrorOnce ==
    /\ [](\A t \in TaskIds :
            /\ status[t].status \in {"queued", "running"} =>
                  status[t].result = NoneVal /\ status[t].error = NoneVal
            /\ status[t].status = "completed" => status[t].error = NoneVal
            /\ status[t].status = "error" =>
                  status[t].error # NoneVal /\ status[t].result = NoneVal)
    /\ [][\A t \in TaskIds :
            (status'[t].result # status[t].result
               \/ status'[t].error # status[t].error) =>
                  /\ status[t].status = "running"
                  /\ status'[t].status \in {"completed", "error"}]_vars

\* A task ended with an error message and no result, another with a result.
C14_Witness ==
    \E t1, t2 \in TaskIds :
        /\ status[t1].status = "error" /\ status[t1].error = "str(exc)"
        /\ status[t2].status = "completed" /\ status[t2].result = "result"
\* ---- C15 -----------------------------------------------------------------
\* C15: distinct resources have distinct locks, and a worker that cannot take
\* its lock is kept out by a worker executing a task of the same resource,
\* never by a task of another resource.
C15_OtherResourcesDoNotBlock ==
    /\ \A r1, r2 \in DOMAIN db_locks : r1 # r2 => db_locks[r1] # db_locks[r2]
    /\ \A w \in Workers :
          (pc[w] = "acquire" /\ ~CanAcquire(lock[w])) =>
              \E v \in Workers :
                  v # w /\ InCS(v) /\ task[v].db_path = task[w].db_path

\* Two workers hold the locks of two resources and both have started (and
\* not finished) a task with an open handle.
C15_Witness ==
    \E w1, w2 \in Workers :
        /\ task[w1].db_path = "db1" /\ task[w2].db_path = "db2"
        /\ pc[w1] = "call" /\ pc[w2] = "call"
        /\ mgr[w1] = "db1" /\ mgr[w2] = "db2"
        /\ lock_owner[lock[w1]] = w1 /\ lock_owner[lock[w2]] = w2
        /\ status[task[w1].task_id].status = "running"
        /\ status[task[w2].task_id].status = "running"
\* ---- C16 -----------------------------------------------------------------
\* C16: 5 workers are started when more than 20 databases were discovered,
\* else the larger of 1 and a quarter (rounded down) of their number; the
\* number lies between 1 and 5 and never changes afterwards.
C16_WorkerCount ==
    /\ [](/\ databases > 20 => num_workers = 5
          /\ databases <= 20 =>
                /\ num_workers >= 1
                /\ num_workers * 4 <= databases \/ num_workers = 1
                /\ (num_workers + 1) * 4 > databases
          /\ num_workers \in 1..5
          /\ DOMAIN pc = 1..num_workers)
    /\ [][num_workers' = num_workers /\ DOMAIN pc' = DOMAIN pc]_vars

\* A pool built on more than 20 databases with five workers in their loop.
C16_Witness ==
    /\ databases > 20
    /\ num_workers = 5
    /\ \A w \in 1..5 : pc[w] = "get"
\* ---- C17 -----------------------------------------------------------------
\* C17: when a successful submit returns, its id differs from every id
\* returned before, the status table holds for it a 'queued' record that
\* carries a submission timestamp, and exactly one descriptor (id, resource,
\* operation, parameters) for it has been appended to the queue.
C17_SubmitPostcondition ==
    [][\A c \in Callers :
         cpc[c] = "put" /\ cpc'[c] = "idle" =>
           LET id == ctask[c].task_id
               d  == ctask[c]
           IN  /\ id \notin ReturnedIds
               /\ id \in ReturnedIds'
               /\ id \in DOMAIN status'
               /\ status'[id].status = "queued"
               /\ "submitted_at" \in DOMAIN status'[id]
               /\ task_queue' = Append(task_queue, d)
               /\ d.db_path = status'[id].db_path
               /\ d.op = status'[id].op
               /\ d.kwargs = status'[id].args
               /\ Cardinality({i \in 1..Len(task_queue') :
                                 task_queue'[i].task_id = id}) = 1]_vars
\* ---- C18 -----------------------------------------------------------------
\* C18: submit never waits for workers: in every state of the pool a caller
\* that has stored its record can put its descriptor and return, and a
\* caller that is not in submit can start one, whatever the workers, the
\* queue and the other callers are doing.
C18_SubmitNeverWaits ==
    \A c \in Callers :
        /\ cpc[c] = "put" => ENABLED SubmitPut(c)
        /\ cpc[c] = "idle" /\ next_id <= MaxTasks => ENABLED SubmitRecord(c)

\* Every worker is busy with a task, one of them inside the operation, and
\* a caller is about to put its descriptor.
C18_Witness ==
    /\ \A w \in Workers : pc[w] \notin {"check", "get", "exited", "dead"}
    /\ \E w \in Workers : InCS(w)
    /\ \E c \in Callers : cpc[c] = "put" /\ ENABLED SubmitPut(c)
\* ---- C19 -----------------------------------------------------------------
\* C19: entries of the status table are never removed: once submit has
\* returned an id, the table has an entry for it and get_status never
\* answers the 'unknown' record for it, also after the task is terminal and
\* after shutdown.
C19_EntriesNeverRemoved ==
    /\ [][\A t \in DOMAIN status : t \in DOMAIN status']_vars
    /\ [](\A t \in ReturnedIds : get_status(t).status # "unknown")
    /\ [](seen.id \in ReturnedIds =>
            /\ seen.rec = [entry |-> seen.id]
            /\ SeenRecord.status \in {"queued", "running", "completed", "error"})

\* get_status has answered the finished record of a returned id after
\* shutdown(wait=True) returned.
C19_Witness ==
    /\ ShutdownReturned
    /\ seen.id \in ReturnedIds
    /\ SeenRecord.status \in {"completed", "error"}
    /\ SeenRecord.finished_at
\* ---- C20 -----------------------------------------------------------------
\* C20: wait_for_tasks returns only when every given id has status
\* 'completed' or 'error'; on return completed + errors is the number of
\* distinct ids given, each counted once under its own status; while a
\* given id is 'queued', 'running' or 'unknown' it has not returned and its
\* next poll can be taken.
C20_WaitReturnsWhenAllTerminal ==
    LET given == {waiter.task_ids[i] : i \in 1..Len(waiter.task_ids)}
        with(s) == {t \in given : get_status(t).status = s}
    IN  /\ waiter.pc = "returned" =>
              /\ given = with("completed") \cup with("error")
              /\ waiter.completed = Cardinality(with("completed"))
              /\ waiter.errors = Cardinality(with("error"))
              /\ waiter.completed + waiter.errors = Cardinality(given)
        /\ (waiter.pc # "idle" /\ given # with("completed") \cup with("error")) =>
              /\ waiter.pc = "for"
              /\ ENABLED (EndPass \/ \E tid \in waiter.todo : PollTask(tid))
        /\ waiter.completed + waiter.errors <= Cardinality(given)

\* wait_for_tasks has returned for a list of two ids, one task completed
\* and the other ended in error.
C20_Witness ==
    /\ waiter.pc = "returned"
    /\ Len(waiter.task_ids) = 2
    /\ waiter.completed = 1
    /\ waiter.errors = 1
\* ---- C21 -----------------------------------------------------------------
\* C21: whenever a caller observes a task with status 'completed' or
\* 'error', the finished_at of that task is already set: no reachable state
\* has a record with a terminal status and finished_at unset.
C21_TerminalHasFinishedAt ==
    /\ \A t \in TaskIds : Terminal(t) => status[t].finished_at
    /\ (seen.id \in ReturnedIds /\ Finished(SeenRecord.status)) =>
          SeenRecord.finished_at
\* ---- C22 -----------------------------------------------------------------
\* C22: tasks leave the queue in the order in which they were enqueued: a
\* descriptor is put behind every descriptor already in the queue, the
\* descriptors in the queue keep their order, and in no step does a
\* descriptor leave the queue while one enqueued before it is still in it,
\* whatever the number of workers.
C22_FifoDequeue ==
    [][LET q == task_queue
           pos(t) == CHOOSE i \in 1..Len(q') : q'[i].task_id = t
       IN  /\ \A i, j \in 1..Len(q) :
                 i < j =>
                   /\ q[j].task_id \notin QueueIds' => q[i].task_id \notin QueueIds'
                   /\ (q[i].task_id \in QueueIds' /\ q[j].task_id \in QueueIds')
                        => pos(q[i].task_id) < pos(q[j].task_id)
           /\ \A i \in 1..Len(q), t \in QueueIds' \ QueueIds :
                 q[i].task_id \in QueueIds' => pos(q[i].task_id) < pos(t)
           /\ \A w \in Workers :
                 (pc[w] = "get" /\ pc'[w] = "mark_running") =>
                   /\ q # <<>>
                   /\ task'[w] = q[1]
                   /\ task'[w].task_id \notin QueueIds']_vars

\* Two tasks were in the queue when the stop flag was set; since then a
\* worker has taken one of them and the other is still queued.
C22_Witness ==
    /\ shutdown_flag
    /\ Cardinality(at_stop.queued) = 2
    /\ Len(task_queue) = 1
    /\ \E w \in Workers : task[w].task_id \in at_stop.queued \ QueueIds
\* ---- C23 -----------------------------------------------------------------
\* C23: with at least two workers the execution order on one resource is
\* not bound to the submission order: when two workers wait for the free
\* lock of the same resource, either of them can take it, whichever task was
\* submitted first.
C23_LockIgnoresSubmissionOrder ==
    \A w, v \in Workers :
        (/\ w # v
         /\ pc[w] = "acquire" /\ pc[v] = "acquire"
         /\ lock[w] = lock[v]
         /\ lock_owner[lock[w]] = 0)
        => ENABLED Acquire(w) /\ ENABLED Acquire(v)

\* Task a was submitted and dequeued before the stop flag was set and task
\* b was submitted after it, for the same resource; b has gone through the
\* critical section and is finished while the worker of a still waits to
\* enter it.
C23_Witness ==
    \E a, b \in TaskIds :
        /\ a \in at_stop.submitted /\ a \notin at_stop.queued
        /\ b \notin at_stop.submitted
        /\ status[a].db_path = status[b].db_path
        /\ status[b].status = "completed" /\ status[b].finished_at
        /\ \E w \in Workers : task[w].task_id = a /\ pc[w] = "acquire"
\* ---- C24 -----------------------------------------------------------------
\* C24: database handles are task-scoped: a worker has a handle open only
\* on the resource of the task it holds and only while it holds the lock of
\* that resource; the handle is closed before the worker takes its next
\* task, whether the operation succeeded or raised; no handle is open on a
\* resource whose lock is free, and no handle is used by two tasks.
C24_HandlesTaskScoped ==
    /\ [](\A w \in Workers :
            /\ mgr[w] # NoneVal =>
                  /\ mgr[w] = task[w].db_path
                  /\ lock[w] # NoLock
                  /\ lock[w] = db_locks[mgr[w]]
                  /\ lock_owner[lock[w]] = w
                  /\ pc[w] \in {"call", "update", "close"}
            /\ \A v \in Workers : (v # w /\ mgr[w] # NoneVal) => mgr[v] # mgr[w])
    /\ [](\A r \in DOMAIN db_locks :
            lock_owner[db_locks[r]] = 0 => \A w \in Workers : mgr[w] # r)
    /\ [][\A w \in Workers :
            /\ task'[w] # task[w] => (mgr[w] = NoneVal /\ mgr'[w] = NoneVal)
            /\ (mgr[w] = NoneVal /\ mgr'[w] # NoneVal) =>
                  (pc[w] = "connect" /\ lock_owner[lock[w]] = w)]_vars

\* The handle of a task whose operation raised is closed and its worker is
\* about to release the lock.
C24_Witness ==
    \E w \in Workers :
        /\ pc[w] = "release"
        /\ status[task[w].task_id].status = "error"
        /\ mgr[w] = NoneVal
        /\ lock_owner[lock[w]] = w
\* ---- C25 -----------------------------------------------------------------
\* C25: each submitted task is dequeued and executed at most once: once
\* its descriptor has left the queue it is never in the queue again, only
\* the submit that created a task puts its descriptor, no two workers hold
\* the same task, and an operation is only ever called for a task that is
\* 'running', never for one that is already 'completed' or 'error'.
C25_AtMostOnce ==
    /\ [][/\ \A t \in Submitted : t \notin QueueIds => t \notin QueueIds'
          /\ \A t \in QueueIds' \ QueueIds :
                \E c \in Callers : cpc[c] = "put" /\ ctask[c].task_id = t
          /\ \A w \in Workers :
                (pc[w] = "call" /\ pc'[w] # "call") =>
                    status[task[w].task_id].status = "running"]_vars
    /\ [](\A w, v \in Workers :
            (w # v /\ task[w] # NoTask) => task[w].task_id # task[v].task_id)
    /\ [](\A t \in TaskIds :
            Terminal(t) =>
              /\ t \notin QueueIds
              /\ \A w \in Workers :
                    task[w].task_id = t =>
                        pc[w] \in {"close", "release", "mark_finished"})

\* A task has ended with status 'error' and a worker is polling the empty
\* queue of a pool that was not shut down.
C25_Witness ==
    /\ ~shutdown_flag
    /\ task_queue = <<>>
    /\ \E t \in TaskIds : status[t].status = "error" /\ status[t].finished_at
    /\ \A w \in Workers : pc[w] = "get"
\* ---- C26 -----------------------------------------------------------------
\* C26: the steps of the workers change only the status fields of a task
\* record (status, result, error, started_at, finished_at): the task_id,
\* db_path, op and args stored by submit never change, no key is added or
\* removed, and a record changes only in a step of the worker that holds
\* its task.
C26_OnlyStatusFieldsChange ==
    [][\A t \in DOMAIN status :
         /\ t \in DOMAIN status'
         /\ DOMAIN status'[t] = DOMAIN status[t]
         /\ status'[t].task_id = status[t].task_id
         /\ status'[t].db_path = status[t].db_path
         /\ status'[t].op = status[t].op
         /\ status'[t].args = status[t].args
         /\ status'[t] # status[t] =>
               \E w \in Workers :
                   /\ task[w].task_id = t
                   /\ pc'[w] # pc[w]
                   /\ \A v \in Workers \ {w} : pc'[v] = pc[v]]_vars

\* A worker has taken one task through to finished_at while the record of
\* another task is still as submit stored it.
C26_Witness ==
    \E t, u \in TaskIds :
        /\ Terminal(t) /\ status[t].finished_at /\ status[t].started_at
        /\ status[t].task_id = t
        /\ status[t].db_path \in Resources
        /\ status[t].op \in ModelOps
        /\ status[t].args \in Kwargs
        /\ status[u] = NewRecord(u, status[u].db_path, status[u].op, status[u].args)
C28_QueuedHaveRecords ==
    /\ \A i \in 1..Len(task_queue) :
          LET d == task_queue[i]
          IN  /\ d.task_id \in DOMAIN status
              /\ status[d.task_id].status = "queued"
              /\ status[d.task_id].task_id = d.task_id
              /\ status[d.task_id].db_path = d.db_path
              /\ status[d.task_id].op = d.op
              /\ status[d.task_id].args = d.kwargs
    /\ \A i, j \in 1..Len(task_queue) :
          i # j => task_queue[i].task_id # task_queue[j].task_id
    /\ \A w \in Workers :
          task[w] # NoTask => task[w].task_id \in DOMAIN status

\* A worker has just dequeued a task and is about to write to its record
\* while a caller is in the middle of the submit of another task.
C28_Witness ==
    /\ \E w \in Workers :
          pc[w] = "mark_running" /\ status[task[w].task_id].status = "queued"
    /\ \E c \in Callers : cpc[c] = "put"
\* ---- C29 -----------------------------------------------------------------
\* C29: submit is not rejected after shutdown: with the stop flag set a
\* valid submit can still be made and completed, it stores a 'queued'
\* record under a fresh id and puts its descriptor; once every worker has
\* ended, a queued task is never executed: its record and its place in the
\* queue never change again.
C29_SubmitAfterShutdown ==
    /\ [](shutdown_flag =>
            \A c \in Callers :
                /\ (cpc[c] = "idle" /\ next_id <= MaxTasks) =>
                       ENABLED SubmitRecord(c)
                /\ cpc[c] = "put" => ENABLED SubmitPut(c))
    /\ [][shutdown_flag =>
            /\ \A t \in DOMAIN status' \ DOMAIN status :
                  /\ t \notin ReturnedIds
                  /\ status'[t].status = "queued"
                  /\ \E c \in Callers : cpc'[c] = "put" /\ ctask'[c].task_id = t
            /\ \A c \in Callers :
                  (cpc[c] = "put" /\ cpc'[c] = "idle") =>
                      /\ task_queue' = Append(task_queue, ctask[c])
                      /\ status'[ctask[c].task_id].status = "queued"]_vars
    /\ [][(\A w \in Workers : Terminated(w)) =>
            /\ \A w \in Workers : pc'[w] = pc[w]
            /\ \A t \in TaskIds : status'[t] = status[t]
            /\ \A t \in QueueIds : t \in QueueIds'
            /\ applied' = applied]_vars

\* shutdown(wait=True) has returned and every worker has exited; a task
\* submitted after the stop flag was set is in the queue with status
\* 'queued'.
C29_Witness ==
    /\ ShutdownReturned
    /\ \A w \in Workers : pc[w] = "exited"
    /\ \E t \in Submitted \ at_stop.known :
          /\ t \in QueueIds
          /\ status[t].status = "queued"
          /\ ~status[t].started_at
\* ---- C30 -----------------------------------------------------------------
\* C30: in a pool built on fewer than 8 databases, which has one worker,
\* at most one task in the whole pool has status 'running' at any time and
\* the tasks are executed strictly in the order in which they were
\* enqueued, across all resources: the task the worker takes is the oldest
\* in the queue, and when it takes it every task taken before is finished.
C30_SingleWorkerInOrder ==
    /\ [](databases < 8 =>
            /\ Cardinality({t \in TaskIds : status[t].status = "running"}) <= 1
            /\ \A t \in TaskIds :
                  status[t].status = "running" =>
                      \E w \in Workers : task[w].task_id = t)
    /\ [][databases < 8 =>
            \A w \in Workers :
                (pc[w] = "get" /\ pc'[w] = "mark_running") =>
                    /\ task'[w] = Head(task_queue)
                    /\ \A t \in Submitted \ QueueIds :
                          Terminal(t) /\ status[t].finished_at]_vars

\* The only worker of a pool built on a few databases has finished a task
\* for one resource and is executing the next one, for another resource.
C30_Witness ==
    /\ databases \in 1..7
    /\ num_workers = 1
    /\ \E t, u \in TaskIds :
          /\ status[t].db_path # status[u].db_path
          /\ Terminal(t) /\ status[t].finished_at
          /\ status[u].status = "running"
          /\ \E w \in Workers : task[w].task_id = u /\ pc[w] = "call"
====
